---- MODULE Spec2Model ----
(***************************************************************************)
(* Model of src/index.js of duplicate-package-checker-webpack-plugin: the  *)
(* package locator, the path normalizer, the issuer chain tracer and the   *)
(* emit handler (module scan, duplicate classification, report).           *)
(*                                                                         *)
(* Strings are sequences of characters (one-character TLA+ strings); the   *)
(* directory name node_modules is kept as one symbol of that alphabet.     *)
(* The empty sequence stands for every falsy string-or-null of the code    *)
(* (a module without resource, a null issuer, a null issuer path): the     *)
(* code only ever tests these values for truthiness.                       *)
(***************************************************************************)
EXTENDS Integers, Sequences, FiniteSets, TLC

VARIABLES
  fs,            \* the file system: directory path -> its package.json
  context,       \* compilation.compiler.context
  options,       \* this.options (verbose, showHelp, emitError, exclude, strict)
  scanned,       \* the modules of compilation.modules the forEach has visited
  modules,       \* let modules = {} : package name -> list of entries
  duplicates,    \* let duplicates = {} : package name -> filtered entries
  errors,        \* compilation.errors
  warnings,      \* compilation.warnings
  callbacks,     \* number of times callback() was invoked
  pc,            \* position of the emit handler
  lpath,         \* locator run: the path handed to getClosestPackage
  lresult,       \* locator run: what getClosestPackage produced
  npath,         \* normalizer run: the path handed in
  once,          \* normalizer run: cleanPathRelativeToContext(npath)
  twice          \* normalizer run: cleanPathRelativeToContext(once)

vars == <<fs, context, options, scanned, modules, duplicates, errors, warnings,
          callbacks, pc, lpath, lresult, npath, once, twice>>

passVars == <<options, scanned, modules, duplicates, errors, warnings, callbacks>>
locatorVars == <<lpath, lresult>>
normalizerVars == <<npath, once, twice>>

----------------------------------------------------------------------------
(* Bounds of the model. *)

MaxModules == 4     \* modules one pass visits
MaxDepth == 2       \* depth of the directory chain of a locator run
MaxPathLen == 5     \* symbols of a path of a normalizer run
StackDepth == 12    \* nested calls the call stack holds

----------------------------------------------------------------------------
(* Strings. *)

NM == "node_modules"
Range(s) == {s[i] : i \in 1..Len(s)}

IsPrefix(p, s) == Len(p) <= Len(s) /\ SubSeq(s, 1, Len(p)) = p

DropFirst(s, n) == SubSeq(s, n + 1, Len(s))

\* UTF-16 code units of the characters names and versions are made of.
Code(c) ==
  CASE c = "." -> 46
    [] c = "0" -> 48 [] c = "1" -> 49 [] c = "2" -> 50 [] c = "3" -> 51
    [] c = "4" -> 52 [] c = "5" -> 53 [] c = "6" -> 54 [] c = "7" -> 55
    [] c = "8" -> 56 [] c = "9" -> 57
    [] c = "@" -> 64
    [] c = "a" -> 97 [] c = "b" -> 98 [] c = "p" -> 112 [] c = "x" -> 120
    [] OTHER -> 0

\* s < t of two JavaScript strings: lexicographic on code units.
RECURSIVE StrLess(_, _)
StrLess(s, t) ==
  IF t = <<>> THEN FALSE
  ELSE IF s = <<>> THEN TRUE
  ELSE IF Code(Head(s)) # Code(Head(t)) THEN Code(Head(s)) < Code(Head(t))
  ELSE StrLess(Tail(s), Tail(t))

\* Array.prototype.join
RECURSIVE Join(_, _)
Join(strs, sep) ==
  IF strs = <<>> THEN <<>>
  ELSE IF Len(strs) = 1 THEN strs[1]
  ELSE strs[1] \o sep \o Join(Tail(strs), sep)

\* Array.prototype.reverse
Reverse(s) == [i \in 1..Len(s) |-> s[Len(s) + 1 - i]]

----------------------------------------------------------------------------
(* semver.major, for the versions the model uses: MAJOR.MINOR.PATCH with   *)
(* numeric identifiers without leading zeros; anything else is an invalid  *)
(* version, on which semver.major throws a TypeError.                      *)

IsDigit(c) == Code(c) >= 48 /\ Code(c) <= 57

RECURSIVE SplitDots(_, _)
SplitDots(s, cur) ==
  IF s = <<>> THEN <<cur>>
  ELSE IF Head(s) = "." THEN <<cur>> \o SplitDots(Tail(s), <<>>)
  ELSE SplitDots(Tail(s), Append(cur, Head(s)))

NumericIdentifier(part) ==
  /\ part # <<>>
  /\ \A i \in 1..Len(part) : IsDigit(part[i])
  /\ (Len(part) > 1 => part[1] # "0")

RECURSIVE Decimal(_, _)
Decimal(part, acc) ==
  IF part = <<>> THEN acc
  ELSE Decimal(Tail(part), 10 * acc + (Code(Head(part)) - 48))

ValidVersion(v) ==
  LET parts == SplitDots(v, <<>>)
  IN Len(parts) = 3 /\ \A i \in 1..3 : NumericIdentifier(parts[i])

\* Defined on valid versions only.
SemverMajor(v) == Decimal(SplitDots(v, <<>>)[1], 0)

----------------------------------------------------------------------------
(* Path Normalizer. *)

IsSep(c) == c = "/" \/ c = "\\"

\* path.split(/[\/\\]node_modules[\/\\]/).join("/~/")
RECURSIVE cleanPath(_)
cleanPath(path) ==
  IF path = <<>> THEN <<>>
  ELSE IF Len(path) >= 3 /\ IsSep(path[1]) /\ path[2] = NM /\ IsSep(path[3])
       THEN <<"/", "~", "/">> \o cleanPath(DropFirst(path, 3))
  ELSE <<Head(path)>> \o cleanPath(Tail(path))

\* The closure of the emit handler over context.
cleanPathRelativeToContext(modulePath) ==
  LET cleanedPath == cleanPath(modulePath)
  IN IF IsPrefix(context, cleanedPath)
     THEN <<".">> \o DropFirst(cleanedPath, Len(context))
     ELSE cleanedPath

----------------------------------------------------------------------------
(* Package Locator. A directory is its absolute path; the top directory is *)
(* "/". fs maps the directories that hold a package.json to its content:   *)
(* parses (require succeeds), name (empty when absent), version.           *)

Top == <<"/">>

\* The index of the last "/" of an absolute path.
RECURSIVE LastSepFrom(_, _)
LastSepFrom(p, i) == IF i <= 1 \/ p[i] = "/" THEN i ELSE LastSepFrom(p, i - 1)

LastSep(p) == LastSepFrom(p, Len(p))

\* path.resolve(p, ".."): the parent directory; the top is its own parent.
ParentDir(p) ==
  IF p = Top THEN Top
  ELSE IF LastSep(p) = 1 THEN Top
  ELSE SubSeq(p, 1, LastSep(p) - 1)

NotFound == [kind |-> "notfound"]

\* find-root: the nearest directory, from start upward, that holds a
\* package.json; throws when there is none.
RECURSIVE findRoot(_)
findRoot(start) ==
  IF start \in DOMAIN fs THEN [kind |-> "root", path |-> start]
  ELSE IF start = Top THEN NotFound
  ELSE findRoot(ParentDir(start))

NullPackage == [kind |-> "null"]
Overflow == [kind |-> "overflow"]
Thrown == [kind |-> "thrown"]

\* getClosestPackage, depth counting the nested calls of itself. A call
\* nested deeper than the call stack allows raises a RangeError (Overflow):
\* the retry from one level higher does not end when the root found is the
\* top directory, which is its own parent.
RECURSIVE getClosestPackageAt(_, _)
getClosestPackageAt(modulePath, depth) ==
  IF depth > StackDepth THEN Overflow
  ELSE
    LET found == findRoot(modulePath)
    IN IF found.kind = "notfound" THEN NullPackage
       ELSE LET root == found.path
                pkg == fs[root]
            IN IF ~pkg.parses THEN NullPackage
               ELSE IF pkg.name = <<>>
                    THEN getClosestPackageAt(ParentDir(root), depth + 1)
               ELSE [kind |-> "pkg", name |-> pkg.name,
                     version |-> pkg.version, path |-> root]

\* What a caller gets from getClosestPackage(modulePath). The RangeError of
\* an exhausted stack is raised where the stack runs out: inside the try
\* block of the innermost call (caught: that call returns null and so does
\* every level above it), or outside of it, where no level catches it and it
\* leaves getClosestPackage as an exception.
getClosestPackage(modulePath, caught) ==
  LET r == getClosestPackageAt(modulePath, 0)
  IN IF r.kind # "overflow" THEN r
     ELSE IF caught THEN NullPackage ELSE Thrown

----------------------------------------------------------------------------
(* The project of the pass: its directories, their package.json files, and *)
(* the module objects the host may hand in (resource, issuer reference; 0  *)
(* is no issuer, the empty resource is no resource).                       *)

V(a, b, c) == a \o <<".">> \o b \o <<".">> \o c

NameA == <<"a">>
NameB == <<"b">>
NameP == <<"p">>
V100 == V(<<"1">>, <<"0">>, <<"0">>)
V900 == V(<<"9">>, <<"0">>, <<"0">>)
V950 == V(<<"9">>, <<"5">>, <<"0">>)
V1000 == V(<<"1", "0">>, <<"0">>, <<"0">>)
V1050 == V(<<"1", "0">>, <<"5">>, <<"0">>)
VX == <<"x">>

Sub(dir, name) == dir \o <<"/", name>>

DirP == <<"/", "p">>
DirA == Sub(Sub(DirP, NM), "a")
DirB == Sub(Sub(DirP, NM), "b")
DirBA == Sub(Sub(DirB, NM), "a")
DirDA == Sub(Sub(Sub(Sub(DirP, NM), "d"), NM), "a")
DirDALib == Sub(DirDA, "l")
DirQ == <<"/", "q">>
DirQA == Sub(Sub(DirQ, NM), "a")

Json(n, v) == [parses |-> TRUE, name |-> n, version |-> v]

ProjectContext == DirP

ProjectTree ==
  (DirP :> Json(NameP, V100)) @@
  (DirA :> Json(NameA, V900)) @@
  (DirB :> Json(NameB, V100)) @@
  (DirBA :> Json(NameA, V950)) @@
  (DirDA :> Json(NameA, V1000)) @@
  (DirDALib :> Json(<<>>, <<>>)) @@
  (DirQ :> Json(NameP, VX)) @@
  (DirQA :> Json(NameA, V1050))

Mod(r, i) == [resource |-> r, issuer |-> i]

Graph ==
  <<Mod(Sub(DirP, "i"), 0),        \* 1: entry of the project, p@1.0.0
    Mod(Sub(DirB, "i"), 1),        \* 2: b@1.0.0, required by 1
    Mod(Sub(DirA, "i"), 1),        \* 3: a@9.0.0, required by 1
    Mod(Sub(DirBA, "i"), 2),       \* 4: a@9.5.0 nested in b, required by 2
    Mod(Sub(DirA, "j"), 2),        \* 5: a@9.0.0 again, required by 2
    Mod(Sub(DirDALib, "i"), 1),    \* 6: a@10.0.0, below an anonymous package.json
    Mod(Sub(DirQA, "i"), 0),       \* 7: a@10.5.0 outside the project, no issuer
    Mod(<<"/", "i">>, 0),          \* 8: a file outside any package
    Mod(Sub(DirQ, "i"), 8),        \* 9: p@x, required by 8
    Mod(Sub(DirP, "j"), 10)>>      \* 10: p@1.0.0, its issuer chain is a cycle

ModuleIds == DOMAIN Graph

----------------------------------------------------------------------------
(* Issuer Chain Tracer. *)

NameAtVersion(pkg) == pkg.name \o <<"@">> \o pkg.version

\* getIssuer(issuer, ret), depth counting the nested calls. The result is
\* [thrown, ret].
RECURSIVE getIssuerAt(_, _, _, _)
getIssuerAt(issuer, ret, depth, caught) ==
  IF depth > StackDepth THEN [thrown |-> TRUE, ret |-> ret]
  ELSE IF issuer # 0 /\ Graph[issuer].resource # <<>>
  THEN LET pkg == getClosestPackage(Graph[issuer].resource, caught)
           p == NameAtVersion(pkg)
           ret1 == IF pkg.kind = "pkg" /\ p \notin Range(ret)
                   THEN Append(ret, p) ELSE ret
       IN IF pkg.kind = "thrown" THEN [thrown |-> TRUE, ret |-> ret]
          ELSE IF Graph[issuer].issuer # 0
               THEN getIssuerAt(Graph[issuer].issuer, ret1, depth + 1, caught)
          ELSE [thrown |-> FALSE, ret |-> ret1]
  ELSE [thrown |-> FALSE, ret |-> ret]

getIssuer(issuer, caught) == getIssuerAt(issuer, <<>>, 0, caught)

Arrow == <<" ", "-", ">", " ">>

\* getIssuerPath dropping the first element (shift) instead of the last.
getIssuerPath_shift(issuers) ==
  LET shifted == IF issuers = <<>> THEN <<>> ELSE Tail(issuers)
  IN <<"~", "/">> \o Join(Reverse(shifted), Arrow)

\* issuers.pop(); "~/" + issuers.reverse().join(" -> ")
getIssuerPath(issuers) ==
  LET popped == IF issuers = <<>> THEN <<>>
                ELSE SubSeq(issuers, 1, Len(issuers) - 1)
  IN <<"~", "/">> \o Join(Reverse(popped), Arrow)

----------------------------------------------------------------------------
(* Module Aggregator: the callback of compilation.modules.forEach.         *)

NoModules == [n \in {} |-> <<>>]

InstancesOf(mods, name) == IF name \in DOMAIN mods THEN mods[name] ELSE <<>>

HasIssuerResource(module) ==
  module.issuer # 0 /\ Graph[module.issuer].resource # <<>>

\* FindVersion never finding the entry: every module pushes a new instance.
FindVersion_none(list, version) == 0

\* _.find(modules[pkg.name], module => module.version === version): the
\* index of the first match, 0 when there is none.
FindVersion(list, version) ==
  LET hits == {i \in 1..Len(list) : list[i].version = version}
  IN IF hits = {} THEN 0
     ELSE CHOOSE i \in hits : \A j \in hits : i <= j

\* if (issuerPath && entry.issuerPaths.indexOf(issuerPath) < 0) push
AddIssuerPath(issuerPaths, issuerPath) ==
  IF issuerPath # <<>> /\ issuerPath \notin Range(issuerPaths)
  THEN Append(issuerPaths, issuerPath)
  ELSE issuerPaths

\* One call of the forEach callback on module object m, from the map mods:
\* [thrown, modules].
scanModule(mods, m, caught) ==
  LET module == Graph[m]
      closestPackage == getClosestPackage(module.resource, caught)
      name == closestPackage.name
      version == closestPackage.version
      modulePath == cleanPathRelativeToContext(closestPackage.path)
      created == [n \in DOMAIN mods \cup {name} |-> InstancesOf(mods, n)]
      traced == getIssuer(m, caught)
      issuerPath == IF HasIssuerResource(module)
                    THEN getIssuerPath(traced.ret) ELSE <<>>
      list == created[name]
      at == FindVersion(list, version)
      issuer == IF HasIssuerResource(module)
                THEN cleanPathRelativeToContext(Graph[module.issuer].resource)
                ELSE <<>>
      entry == [version |-> version, path |-> modulePath,
                issuerPaths |-> <<>>, issuer |-> issuer]
      pushed == IF at = 0 THEN Append(list, entry) ELSE list
      k == IF at = 0 THEN Len(pushed) ELSE at
      updated == [pushed EXCEPT ![k].issuerPaths = AddIssuerPath(@, issuerPath)]
  IN IF module.resource = <<>> THEN [thrown |-> FALSE, modules |-> mods]
     ELSE IF closestPackage.kind = "thrown" THEN [thrown |-> TRUE, modules |-> mods]
     ELSE IF closestPackage.kind = "null" THEN [thrown |-> FALSE, modules |-> mods]
     ELSE IF HasIssuerResource(module) /\ traced.thrown
          THEN [thrown |-> TRUE, modules |-> created]
     ELSE [thrown |-> FALSE, modules |-> [created EXCEPT ![name] = updated]]

----------------------------------------------------------------------------
(* Duplicate Classifier: the for (let name in modules) loop.               *)

\* The exclude functions a pass may be configured with ("none": null).
ExcludedVersions == {V950, V1050}

exclude(kind, name, instance) ==
  CASE kind = "byVersion" -> instance.version \in ExcludedVersions
    [] kind = "byName" -> name = NameP
    [] OTHER -> FALSE

Majors(instances) ==
  {SemverMajor(instances[i].version) : i \in 1..Len(instances)}

\* _.groupBy(instances, instance => semver.major(instance.version))[major]
Group(instances, major) ==
  SelectSeq(instances, LAMBDA e : SemverMajor(e.version) = major)

\* _.each(groups, ...): the groups of more than one instance, concatenated
\* in the order of the keys of the groups object (ascending integers).
RECURSIVE concatGroups(_, _)
concatGroups(instances, majors) ==
  IF majors = {} THEN <<>>
  ELSE LET major == CHOOSE x \in majors : \A y \in majors : x <= y
           group == Group(instances, major)
       IN (IF Len(group) > 1 THEN group ELSE <<>>)
            \o concatGroups(instances, majors \ {major})

\* semver.major throws on an instance of the name
MajorThrows(instances) ==
  \E i \in 1..Len(instances) : ~ValidVersion(instances[i].version)

\* RelaxedFilter keeping the groups of one instance too.
RelaxedFilter_all(instances) == instances

RelaxedFilter(instances) == concatGroups(instances, Majors(instances))

\* ExcludeFilter that never calls the exclude function.
ExcludeFilter_skip(opts, name, filtered) == filtered

ExcludeFilter(opts, name, filtered) ==
  IF opts.exclude = "none" THEN filtered
  ELSE SelectSeq(filtered, LAMBDA e : ~exclude(opts.exclude, name, e))

\* One iteration of the loop: [thrown, keep, filtered]; keep is false where
\* the code continues without an entry in duplicates.
classifyName(opts, name, instances) ==
  IF Len(instances) <= 1
  THEN [thrown |-> FALSE, keep |-> FALSE, filtered |-> <<>>]
  ELSE IF ~opts.strict /\ MajorThrows(instances)
  THEN [thrown |-> TRUE, keep |-> FALSE, filtered |-> <<>>]
  ELSE LET grouped == IF opts.strict THEN instances ELSE RelaxedFilter(instances)
           filtered == ExcludeFilter(opts, name, grouped)
       IN IF ~opts.strict /\ Len(grouped) <= 1
          THEN [thrown |-> FALSE, keep |-> FALSE, filtered |-> <<>>]
          ELSE IF opts.exclude # "none" /\ Len(filtered) <= 1
          THEN [thrown |-> FALSE, keep |-> FALSE, filtered |-> <<>>]
          ELSE [thrown |-> FALSE, keep |-> TRUE, filtered |-> filtered]

\* The whole loop: [thrown, duplicates].
classify(opts, mods) ==
  LET kept == {n \in DOMAIN mods : classifyName(opts, n, mods[n]).keep}
  IN [thrown |-> \E n \in DOMAIN mods : classifyName(opts, n, mods[n]).thrown,
      duplicates |-> [n \in kept |-> classifyName(opts, n, mods[n]).filtered]]

----------------------------------------------------------------------------
(* Report Formatter: sortedDuplicateKeys.map(...)                          *)

\* Object.keys(duplicates).sort()
sortedKeys(names) ==
  [i \in 1..Cardinality(names) |->
     CHOOSE n \in names : Cardinality({x \in names : StrLess(x, n)}) = i - 1]

\* duplicates[name].sort((a, b) => (a.version < b.version ? -1 : 1)), by
\* insertion: an element goes before the first one it is less than.
RECURSIVE insertByVersion(_, _)
insertByVersion(sorted, e) ==
  IF sorted = <<>> THEN <<e>>
  ELSE IF StrLess(e.version, Head(sorted).version) THEN <<e>> \o sorted
  ELSE <<Head(sorted)>> \o insertByVersion(Tail(sorted), e)

\* sortByVersion leaving the insertion order.
sortByVersion_unsorted(instances) == instances

RECURSIVE sortByVersion(_)
sortByVersion(instances) ==
  IF instances = <<>> THEN <<>>
  ELSE insertByVersion(sortByVersion(SubSeq(instances, 1, Len(instances) - 1)),
                       instances[Len(instances)])

\* The text of one instance: its version, its issuer paths joined by
\* newlines and, in verbose mode, " from " and its issuer when it has one.
instanceLine(opts, e) ==
  [version |-> e.version, issuerPaths |-> e.issuerPaths,
   from |-> IF opts.verbose /\ e.issuer # <<>> THEN e.issuer ELSE <<>>]

\* The i-th Error pushed: the package name, the lines of its instances, and
\* the help footer on the last one.
diagnostic(opts, dups, keys, i) ==
  LET instances == sortByVersion(dups[keys[i]])
  IN [name |-> keys[i],
      instances |-> [k \in 1..Len(instances) |-> instanceLine(opts, instances[k])],
      help |-> opts.showHelp /\ i = Len(keys)]

report(opts, dups) ==
  LET keys == sortedKeys(DOMAIN dups)
  IN [i \in 1..Len(keys) |-> diagnostic(opts, dups, keys, i)]

----------------------------------------------------------------------------
(* The emit handler as a state machine.                                    *)

Options ==
  [verbose : BOOLEAN, showHelp : BOOLEAN, emitError : BOOLEAN,
   exclude : {"none", "byVersion", "byName"}, strict : BOOLEAN]

DefaultOptions ==
  [verbose |-> FALSE, showHelp |-> TRUE, emitError |-> FALSE,
   exclude |-> "none", strict |-> TRUE]

IdleLocator == lpath = <<>> /\ lresult = [kind |-> "idle"]
IdleNormalizer == npath = <<>> /\ once = <<>> /\ twice = <<>>

IdlePass ==
  /\ options = DefaultOptions
  /\ scanned = {}
  /\ modules = NoModules
  /\ duplicates = NoModules
  /\ errors = <<>>
  /\ warnings = <<>>
  /\ callbacks = 0

Init ==
  /\ fs = ProjectTree
  /\ context = ProjectContext
  /\ options \in Options
  /\ scanned = {}
  /\ modules = NoModules
  /\ duplicates = NoModules
  /\ errors = <<>>
  /\ warnings = <<>>
  /\ callbacks = 0
  /\ pc = "scan"
  /\ IdleLocator
  /\ IdleNormalizer

\* Where an exhausted stack may raise its RangeError: only a file system whose
\* top directory holds an anonymous package.json exhausts it in the locator.
CatchChoices ==
  IF Top \in DOMAIN fs /\ fs[Top].parses /\ fs[Top].name = <<>>
  THEN BOOLEAN ELSE {TRUE}

\* The forEach callback on the next module of compilation.modules.
ScanModule ==
  /\ pc = "scan"
  /\ Cardinality(scanned) < MaxModules
  /\ \E m \in ModuleIds \ scanned, caught \in CatchChoices :
       LET r == scanModule(modules, m, caught)
       IN /\ scanned' = scanned \cup {m}
          /\ modules' = r.modules
          /\ pc' = IF r.thrown THEN "thrown" ELSE "scan"
  /\ UNCHANGED <<fs, context, options, duplicates, errors, warnings, callbacks,
                 lpath, lresult, npath, once, twice>>

\* The forEach has returned: the classification loop, which may throw, then
\* the diagnostics are pushed and callback() is called.
Report ==
  /\ pc = "scan"
  /\ LET r == classify(options, modules)
     IN IF r.thrown
        THEN /\ pc' = "thrown"
             /\ UNCHANGED <<duplicates, errors, warnings, callbacks>>
        ELSE /\ duplicates' = r.duplicates
             /\ IF options.emitError
                THEN /\ errors' = errors \o report(options, r.duplicates)
                     /\ UNCHANGED warnings
                ELSE /\ warnings' = warnings \o report(options, r.duplicates)
                     /\ UNCHANGED errors
             /\ callbacks' = callbacks + 1
             /\ pc' = "done"
  /\ UNCHANGED <<fs, context, options, scanned, modules,
                 lpath, lresult, npath, once, twice>>

Next == ScanModule \/ Report

Spec == Init /\ [][Next]_vars

----------------------------------------------------------------------------
(* Runs of the package locator alone, over every package.json layout of a  *)
(* chain of nested directories.                                            *)

RECURSIVE ChainDir(_)
ChainDir(k) == IF k = 0 THEN Top
               ELSE IF k = 1 THEN <<"/", "d">>
               ELSE Sub(ChainDir(k - 1), "d")

ChainDirs == {ChainDir(k) : k \in 0..MaxDepth}

\* A file of the directory, or the directory itself.
ChainPaths ==
  ChainDirs \cup {IF d = Top THEN <<"/", "f">> ELSE Sub(d, "f") : d \in ChainDirs}

PackageJsons ==
  {Json(NameA, V100), Json(NameB, V900), Json(<<>>, V100),
   [parses |-> FALSE, name |-> <<>>, version |-> <<>>]}

NoTree == [d \in {} |-> Json(<<>>, <<>>)]

ChainTrees ==
  UNION {[dirs -> PackageJsons] : dirs \in SUBSET ChainDirs}

InitLocator ==
  /\ fs \in ChainTrees
  /\ context = ProjectContext
  /\ IdlePass
  /\ pc = "locate"
  /\ lpath \in ChainPaths
  /\ lresult = [kind |-> "idle"]
  /\ IdleNormalizer

\* getClosestPackage(lpath) is called.
Locate ==
  /\ pc = "locate"
  /\ \E caught \in CatchChoices : lresult' = getClosestPackage(lpath, caught)
  /\ pc' = "located"
  /\ UNCHANGED <<fs, context, passVars, lpath, normalizerVars>>

NextLocator == Locate

SpecLocator == InitLocator /\ [][NextLocator]_vars

----------------------------------------------------------------------------
(* Runs of the path normalizer alone: a path is normalized, and the result *)
(* is normalized again.                                                    *)

PathSymbols == {"/", "\\", NM, "a", "~"}

NormalizerPaths ==
  UNION {[1..n -> PathSymbols] : n \in 0..MaxPathLen}

NormalizerContexts == {<<"/", "a">>, <<"/">>}

InitNormalizer ==
  /\ fs = NoTree
  /\ context \in NormalizerContexts
  /\ IdlePass
  /\ pc = "normalize"
  /\ IdleLocator
  /\ npath \in NormalizerPaths
  /\ once = <<>>
  /\ twice = <<>>

NormalizeOnce ==
  /\ pc = "normalize"
  /\ once' = cleanPathRelativeToContext(npath)
  /\ pc' = "normalized"
  /\ UNCHANGED <<fs, context, passVars, locatorVars, npath, twice>>

NormalizeAgain ==
  /\ pc = "normalized"
  /\ twice' = cleanPathRelativeToContext(once)
  /\ pc' = "renormalized"
  /\ UNCHANGED <<fs, context, passVars, locatorVars, npath, once>>

NextNormalizer == NormalizeOnce \/ NormalizeAgain

SpecNormalizer == InitNormalizer /\ [][NextNormalizer]_vars

----------------------------------------------------------------------------
(* Claims on the path normalizer.                                          *)

\* C7: path normalization is idempotent: normalizing the normalized path
\* again, under the same project context, gives the normalized path.
C7_NormalizeIdempotent ==
  pc = "renormalized" => twice = once

----------------------------------------------------------------------------
(* Claims on the package locator.                                          *)

AllParse == \A d \in DOMAIN fs : fs[d].parses

Named(d) == d \in DOMAIN fs /\ fs[d].parses /\ fs[d].name # <<>>

\* The directories from the path upward, the path itself included.
RECURSIVE Ancestors(_)
Ancestors(p) == IF p = Top THEN {Top} ELSE {p} \cup Ancestors(ParentDir(p))

\* The identity of the nearest ancestor directory with a named package.json,
\* null when there is none.
NearestNamed(p) ==
  LET named == {d \in Ancestors(p) : Named(d)}
  IN IF named = {} THEN NullPackage
     ELSE LET d == CHOOSE x \in named : \A y \in named : Len(y) <= Len(x)
          IN [kind |-> "pkg", name |-> fs[d].name,
              version |-> fs[d].version, path |-> d]

\* C8: where every package.json parses, the locator returns the identity of
\* the nearest ancestor directory whose package.json has a non-empty name,
\* and none when no ancestor has one, an anonymous package.json in the top
\* directory included.
C8_LocatorNearestNamed ==
  (pc = "located" /\ AllParse) => lresult = NearestNamed(lpath)

----------------------------------------------------------------------------
(* Claims on the pass.                                                     *)

\* The diagnostic sink the pass writes to.
Sink == IF options.emitError THEN errors ELSE warnings

\* The package a scanned module object belongs to.
Owner(m) == getClosestPackageAt(Graph[m].resource, 0)

Resolves(m) == Graph[m].resource # <<>> /\ Owner(m).kind = "pkg"

PackageNames == {NameA, NameB, NameP}

\* The versions of the name the scan has met.
Observed(n) ==
  {Owner(m).version : m \in {x \in scanned : Resolves(x) /\ Owner(x).name = n}}

\* The entry of the map for the package of module m (0: none).
EntryOf(mods, m) ==
  FindVersion(InstancesOf(mods, Owner(m).name), Owner(m).version)

IssuerOf(m) == Graph[m].issuer

\* Module c is issued by b, b by a, a by nobody, and the three belong to
\* three different name@version identities.
Chain3(c) ==
  /\ IssuerOf(c) # 0
  /\ IssuerOf(IssuerOf(c)) # 0
  /\ IssuerOf(IssuerOf(IssuerOf(c))) = 0
  /\ LET b == IssuerOf(c)
         a == IssuerOf(b)
     IN /\ Resolves(a) /\ Resolves(b) /\ Resolves(c)
        /\ NameAtVersion(Owner(a)) # NameAtVersion(Owner(b))
        /\ NameAtVersion(Owner(b)) # NameAtVersion(Owner(c))
        /\ NameAtVersion(Owner(a)) # NameAtVersion(Owner(c))

RecordedFor(c, issuerPath) ==
  /\ EntryOf(modules, c) # 0
  /\ issuerPath \in
       Range(modules[Owner(c).name][EntryOf(modules, c)].issuerPaths)

\* "~/<first> -> <second>"
Rendered(first, second) ==
  <<"~", "/">> \o NameAtVersion(Owner(first)) \o Arrow \o NameAtVersion(Owner(second))

InstancesWellFormed ==
  \A n \in DOMAIN modules :
    \A i \in 1..Len(modules[n]) :
      /\ \A j \in 1..Len(modules[n]) :
           modules[n][i].version = modules[n][j].version => i = j
      /\ \A k, l \in 1..Len(modules[n][i].issuerPaths) :
           modules[n][i].issuerPaths[k] = modules[n][i].issuerPaths[l] => k = l

\* C10, the step part: an instance keeps its place, version, path and issuer,
\* and its issuer paths only grow at the end.
InstancesKept ==
  \A n \in DOMAIN modules :
    /\ n \in DOMAIN modules'
    /\ Len(modules[n]) <= Len(modules'[n])
    /\ \A i \in 1..Len(modules[n]) :
         /\ modules'[n][i].version = modules[n][i].version
         /\ modules'[n][i].path = modules[n][i].path
         /\ modules'[n][i].issuer = modules[n][i].issuer
         /\ IsPrefix(modules[n][i].issuerPaths, modules'[n][i].issuerPaths)

DiagnosticsFor(n) == {i \in 1..Len(Sink) : Sink[i].name = n}

\* The versions diagnostic d lists.
Listed(d) == {d.instances[k].version : k \in 1..Len(d.instances)}

\* The versions of n met in the scan that the exclude function lets through.
NotRejected(n) ==
  {v \in Observed(n) : ~exclude(options.exclude, n, [version |-> v])}

\* The other array of the sink is left alone.
OtherSinkEmpty == IF options.emitError THEN warnings = <<>> ELSE errors = <<>>

\* C2: in strict mode, when the pass is done, the sink holds a diagnostic for
\* a name if and only if at least two versions of it were met that the
\* exclude function does not reject; there is one such diagnostic, it lists
\* exactly those versions, each once; names of a single version give nothing.
C2_StrictDuplicates ==
  (pc = "done" /\ options.strict) =>
    /\ OtherSinkEmpty
    /\ \A i \in 1..Len(Sink) : Sink[i].name \in PackageNames
    /\ \A n \in PackageNames :
         /\ (DiagnosticsFor(n) # {}) <=> (Cardinality(NotRejected(n)) >= 2)
         /\ Cardinality(DiagnosticsFor(n)) <= 1
         /\ \A i \in DiagnosticsFor(n) :
              /\ Listed(Sink[i]) = NotRejected(n)
              /\ Len(Sink[i].instances) = Cardinality(NotRejected(n))

\* A strict pass is done, with a diagnostic that lists two versions of a name
\* of which a third was rejected, and a name left out for having one version.
C2_Witness ==
  /\ pc = "done" /\ options.strict /\ options.exclude = "byVersion"
  /\ \E n \in PackageNames :
       /\ DiagnosticsFor(n) # {}
       /\ Cardinality(Observed(n)) > Cardinality(NotRejected(n))
  /\ \E n \in PackageNames :
       Cardinality(Observed(n)) = 1 /\ DiagnosticsFor(n) = {}

\* The versions of n met in the scan whose major version another version of n
\* met in the scan has too.
SharingMajor(n) ==
  {v \in Observed(n) :
     \E w \in Observed(n) :
       /\ w # v /\ ValidVersion(v) /\ ValidVersion(w)
       /\ SemverMajor(v) = SemverMajor(w)}

\* C3: in relaxed mode without exclude function, when the pass is done, the
\* diagnostic of a name lists exactly the versions that share their major
\* version with another version of the name, each once, and a name without
\* such versions has no diagnostic.
C3_RelaxedMajorGroups ==
  (pc = "done" /\ ~options.strict /\ options.exclude = "none") =>
    \A n \in PackageNames :
      /\ (DiagnosticsFor(n) # {}) <=> (SharingMajor(n) # {})
      /\ Cardinality(DiagnosticsFor(n)) <= 1
      /\ \A i \in DiagnosticsFor(n) :
           /\ Listed(Sink[i]) = SharingMajor(n)
           /\ Len(Sink[i].instances) = Cardinality(SharingMajor(n))

\* A relaxed pass is done with a diagnostic that leaves out a version that is
\* alone in its major version.
C3_Witness ==
  /\ pc = "done" /\ ~options.strict /\ options.exclude = "none"
  /\ \E n \in PackageNames :
       /\ DiagnosticsFor(n) # {}
       /\ Observed(n) \ SharingMajor(n) # {}

\* C9: in relaxed mode every diagnostic lists, for each of its instances,
\* another instance of the same major version.
C9_RelaxedReportsShareMajor ==
  (pc = "done" /\ ~options.strict) =>
    \A i \in 1..Len(Sink) :
      \A v \in Listed(Sink[i]) :
        \E w \in Listed(Sink[i]) : w # v /\ SemverMajor(w) = SemverMajor(v)

\* C6: the diagnostics of the sink are in strictly ascending order of package
\* name, and the instances of each are in strictly ascending order of
\* version, both compared as strings.
C6_SortedReport ==
  /\ \A i \in 1..(Len(Sink) - 1) : StrLess(Sink[i].name, Sink[i + 1].name)
  /\ \A i \in 1..Len(Sink) :
       \A k \in 1..(Len(Sink[i].instances) - 1) :
         StrLess(Sink[i].instances[k].version, Sink[i].instances[k + 1].version)

\* Two diagnostics were pushed, and one lists 10.0.0 before 9.0.0.
C6_Witness ==
  /\ Len(Sink) >= 2
  /\ \E i \in 1..Len(Sink) :
       \E k \in 1..(Len(Sink[i].instances) - 1) :
         /\ Sink[i].instances[k].version = V1000
         /\ Sink[i].instances[k + 1].version = V900

\* C4: no exception leaves the emit handler, and a pass that has ended has
\* called callback() exactly once; it is never called twice.
C4_CallbackExactlyOnce ==
  /\ pc # "thrown"
  /\ callbacks <= 1
  /\ (pc = "done" => callbacks = 1)

----------------------------------------------------------------------------
(* Two passes over the same modules in different orders.                   *)

\* The orders in which the forEach can meet the modules of a set.
OrdersOf(set) ==
  {q \in [1..Cardinality(set) -> set] :
     \A i, j \in 1..Cardinality(set) : q[i] = q[j] => i = j}

\* The map after the modules of the order were scanned, from the empty map.
RECURSIVE aggregate(_)
aggregate(order) ==
  IF order = <<>> THEN NoModules
  ELSE scanModule(aggregate(SubSeq(order, 1, Len(order) - 1)),
                  order[Len(order)], TRUE).modules

\* What a pass over the order pushes.
PassReport(order) ==
  report(options, classify(options, aggregate(order)).duplicates)

AsSet(s) == {s[i] : i \in 1..Len(s)}

\* The same diagnostics but for the order of the issuer paths of an instance.
SameDiagnostics(r1, r2) ==
  /\ Len(r1) = Len(r2)
  /\ \A i \in 1..Len(r1) :
       /\ r1[i].name = r2[i].name
       /\ r1[i].help = r2[i].help
       /\ Len(r1[i].instances) = Len(r2[i].instances)
       /\ \A k \in 1..Len(r1[i].instances) :
            /\ r1[i].instances[k].version = r2[i].instances[k].version
            /\ r1[i].instances[k].from = r2[i].instances[k].from
            /\ AsSet(r1[i].instances[k].issuerPaths)
                 = AsSet(r2[i].instances[k].issuerPaths)

\* C5: a pass over the same modules in any other order, with the same
\* options, pushes the same diagnostics as the pass that is done, but for the
\* order of the issuer paths inside an instance.
C5_OrderIndependentReport ==
  pc = "done" =>
    \A order \in OrdersOf(scanned) : SameDiagnostics(Sink, PassReport(order))

====
